---- MODULE Spec2Model ----
(***************************************************************************)
(* Model of the QuantFlow signal engine (src/trading.py): the FVG          *)
(* detector, tap tracking and the tap-then-gap confirmation of             *)
(* TradingEngine.check_fvg_signals, driven by a caller that fetches two    *)
(* candle series and reads the price levels from the database.             *)
(*                                                                         *)
(* Candles are records [timestamp, low, high, close]; open and volume are  *)
(* never read by the engine's decisions and are left out.  Positions in a  *)
(* series are 1-based in TLA+; every index the code stores or returns      *)
(* (tap_index, an FVG's index) is kept 0-based as in the source.           *)
(***************************************************************************)
EXTENDS Integers, Sequences, FiniteSets, TLC

VARIABLES
    price_df,          \* trigger-timeframe series handed to check_fvg_signals
    fvg_df,            \* confirmation-timeframe series (also detect_fvg's df)
    levels_db,         \* price_levels table: level_id -> [price, enabled, triggered]
    price_levels,      \* the level records the caller read and passed, as they are after the call
    triggered_levels,  \* TradingEngine.triggered_levels: level_id -> TapState
    signals,           \* list returned by the call (both are locals of one refresh tick)
    emitted,           \* per level, number of save_signal calls so far (history)
    fvg_list,          \* result of the last direct detect_fvg call
    detect_args,       \* arguments of that call
    alert,             \* one check_alert_conditions call: its arguments and what it returned
    sandbox,           \* one execute_indicator call: its arguments, progress and outcome
    host,              \* what the caller passes beside candles and levels (symbol, webhook),
                       \* the remote service, and what the last call's notifications returned
    alert_pass         \* the indicator_alerts table and what the last check_indicator_alerts did

vars == <<price_df, fvg_df, levels_db, price_levels, triggered_levels,
          signals, emitted, fvg_list, detect_args, alert, sandbox, host,
          alert_pass>>

----------------------------------------------------------------------------
(* Bounds and input domains *)

MaxPriceLen == 3
MaxFvgLen == 5
MaxSamples == 2
MaxDetectLen == 5

Prices == {1, 2}
DetectPrices == {1, 2, 3}
Levels == {1, 2}
LevelPrice == [l \in Levels |-> l]

None == "None"
FvgTypes == {"Bullish", "Bearish"}
Filters == FvgTypes \cup {None}

\* the trigger series opens one step before the confirmation series
PriceTs(k) == k - 1
FvgTs(k) == k

PriceCandle(k, lo, hi, cl) == [timestamp |-> PriceTs(k), low |-> lo, high |-> hi, close |-> cl]
FvgCandle(k, lo, hi) == [timestamp |-> FvgTs(k), low |-> lo, high |-> hi, close |-> hi]

Max(a, b) == IF a > b THEN a ELSE b

----------------------------------------------------------------------------
(* TradingEngine.detect_fvg *)

\* df.iloc[:-1]
DropLast(df) == SubSeq(df, 1, Len(df) - 1)

\* df.iloc[i] with the source's 0-based i
ILoc(df, i) == df[i + 1]

BullishFvg(c, i) ==
    [type |-> "Bullish", index |-> i, timestamp |-> ILoc(c, i).timestamp,
     fvg_low |-> ILoc(c, i - 2).high, fvg_high |-> ILoc(c, i).low,
     gap_size |-> ILoc(c, i).low - ILoc(c, i - 2).high,
     candle_1 |-> ILoc(c, i - 2), candle_2 |-> ILoc(c, i - 1), candle_3 |-> ILoc(c, i)]

BearishFvg(c, i) ==
    [type |-> "Bearish", index |-> i, timestamp |-> ILoc(c, i).timestamp,
     fvg_low |-> ILoc(c, i).high, fvg_high |-> ILoc(c, i - 2).low,
     gap_size |-> ILoc(c, i - 2).low - ILoc(c, i).high,
     candle_1 |-> ILoc(c, i - 2), candle_2 |-> ILoc(c, i - 1), candle_3 |-> ILoc(c, i)]

\* detect_step that ignores the direction filter
detect_step_unfiltered(c, f, i) ==
    IF ILoc(c, i - 2).high < ILoc(c, i).low THEN <<BullishFvg(c, i)>>
    ELSE IF ILoc(c, i - 2).low > ILoc(c, i).high THEN <<BearishFvg(c, i)>>
    ELSE <<>>

\* detect_step with the comparisons made inclusive (touching candles count as a gap)
detect_step_inclusive(c, f, i) ==
    IF ILoc(c, i - 2).high <= ILoc(c, i).low
    THEN (IF f = None \/ f = "Bullish" THEN <<BullishFvg(c, i)>> ELSE <<>>)
    ELSE IF ILoc(c, i - 2).low >= ILoc(c, i).high
    THEN (IF f = None \/ f = "Bearish" THEN <<BearishFvg(c, i)>> ELSE <<>>)
    ELSE <<>>

\* one iteration of the for loop: what is appended at index i
detect_step(c, f, i) ==
    IF ILoc(c, i - 2).high < ILoc(c, i).low
    THEN (IF f = None \/ f = "Bullish" THEN <<BullishFvg(c, i)>> ELSE <<>>)
    ELSE IF ILoc(c, i - 2).low > ILoc(c, i).high
    THEN (IF f = None \/ f = "Bearish" THEN <<BearishFvg(c, i)>> ELSE <<>>)
    ELSE <<>>

RECURSIVE detect_loop(_, _, _, _)
detect_loop(c, f, i, acc) ==
    IF i >= Len(c) THEN acc
    ELSE detect_loop(c, f, i + 1, acc \o detect_step(c, f, i))

\* df_completed that keeps the live candle
df_completed_with_live(df) == df

df_completed(df) == DropLast(df)

detect_fvg(df, fvg_type_filter, start_idx) ==
    IF Len(df) < 4 THEN <<>>
    ELSE IF Len(df_completed(df)) < 3 THEN <<>>
    ELSE detect_loop(df_completed(df), fvg_type_filter, Max(2, start_idx), <<>>)

----------------------------------------------------------------------------
(* TradingEngine.get_current_price / determine_fvg_type *)

\* Python's None for a value that is otherwise a number or a dict: the empty
\* sequence, a present value v being <<v>>
Nil == <<>>
Some(v) == <<v>>
Val(o) == o[1]

\* get_current_price reading the still-forming last candle
get_current_price_live(df) ==
    IF Len(df) < 2 THEN Nil ELSE Some(df[Len(df)].close)

get_current_price(df) ==
    IF Len(df) < 2 THEN Nil ELSE Some(df[Len(df) - 1].close)

\* determine_fvg_type without the 0.1% band around the current price
determine_fvg_type_no_band(price_level, current_price) ==
    IF price_level > current_price THEN "Bearish"
    ELSE IF price_level < current_price THEN "Bullish"
    ELSE None

\* price_level > current_price * 1.001 and price_level < current_price * 0.999,
\* both sides scaled by 1000
determine_fvg_type(price_level, current_price) ==
    IF price_level * 1000 > current_price * 1001 THEN "Bearish"
    ELSE IF price_level * 1000 < current_price * 999 THEN "Bullish"
    ELSE None

----------------------------------------------------------------------------
(* TradingEngine.check_price_tap *)

\* for idx, row in df_completed.iterrows(): first row containing the price,
\* as a 0-based index, or -1 when the loop ends without a break
RECURSIVE tap_scan(_, _, _)
tap_scan(c, price, idx) ==
    IF idx >= Len(c) THEN -1
    ELSE IF ILoc(c, idx).low <= price /\ price <= ILoc(c, idx).high THEN idx
    ELSE tap_scan(c, price, idx + 1)

\* tap_completed that keeps the live candle
tap_completed_with_live(df) == df

tap_completed(df) == IF Len(df) > 1 THEN DropLast(df) ELSE df

\* tap_skipped without the "level_id in self.triggered_levels" guard
tap_skipped_ignoring_map(level, tl) ==
    \/ ~level.enabled
    \/ level.triggered

\* tap_skipped without the "level['triggered']" guard
tap_skipped_ignoring_triggered(level, tl) ==
    \/ ~level.enabled
    \/ level.level_id \in DOMAIN tl

\* the guards that skip a level: disabled, triggered, or already in the map
tap_skipped(level, tl) ==
    \/ ~level.enabled
    \/ level.triggered
    \/ level.level_id \in DOMAIN tl

MapPut(m, k, v) == [x \in DOMAIN m \cup {k} |-> IF x = k THEN v ELSE m[x]]
MapDel(m, k) == [x \in DOMAIN m \ {k} |-> m[x]]

\* body of "for level in price_levels" for one level; acc = [tapped, tl]
tap_level(c, level, current_price, acc) ==
    IF tap_skipped(level, acc.tl) THEN acc
    ELSE LET expected == determine_fvg_type(level.price, current_price)
             idx == tap_scan(c, level.price, 0)
         IN  IF idx < 0 THEN acc
             ELSE [tapped |-> Append(acc.tapped,
                        [level |-> level,
                         candle_index |-> idx,
                         timestamp |-> ILoc(c, idx).timestamp,
                         candle_close |-> ILoc(c, idx).close,
                         expected_fvg_type |-> expected]),
                   tl |-> MapPut(acc.tl, level.level_id,
                        [tap_index |-> idx,
                         tap_timestamp |-> ILoc(c, idx).timestamp,
                         tap_price |-> level.price,
                         expected_fvg_type |-> expected])]

RECURSIVE tap_levels(_, _, _, _, _)
tap_levels(c, pl, current_price, n, acc) ==
    IF n > Len(pl) THEN acc
    ELSE tap_levels(c, pl, current_price, n + 1, tap_level(c, pl[n], current_price, acc))

\* returns [tapped |-> the returned list, tl |-> self.triggered_levels afterwards]
check_price_tap(df, pl, current_price, tl) ==
    IF Len(df) = 0 \/ Len(pl) = 0 THEN [tapped |-> <<>>, tl |-> tl]
    ELSE tap_levels(tap_completed(df), pl, current_price, 1, [tapped |-> <<>>, tl |-> tl])

----------------------------------------------------------------------------
(* TradingEngine.check_fvg_after_tap *)

\* after_tap that also keeps the candle at the tap's own timestamp
after_tap_inclusive(c, tap_timestamp) == c.timestamp >= tap_timestamp

\* fvg_df[fvg_df['timestamp'] > tap_timestamp].reset_index(drop=True)
after_tap(c, tap_timestamp) == c.timestamp > tap_timestamp

post_tap_df(df, tap_timestamp) ==
    LET Keep(c) == after_tap(c, tap_timestamp) IN SelectSeq(df, Keep)

fvg_pick(list) == list[1]

check_fvg_after_tap(df, tap_timestamp, expected_fvg_type) ==
    IF Len(df) = 0 THEN Nil
    ELSE LET post == post_tap_df(df, tap_timestamp)
         IN  IF Len(post) < 4 THEN Nil
             ELSE LET list == detect_fvg(post, expected_fvg_type, 2)
                  IN  IF Len(list) = 0 THEN Nil ELSE Some(fvg_pick(list))

----------------------------------------------------------------------------
(* NotificationManager.send_discord_notification *)

\* how the webhook's remote end answers
Services == {"accepts", "rejects", "unreachable"}

\* requests.post(webhook_url, json=payload, timeout=10): a response, or a
\* RequestException (connection error, timeout)
requests_post(service) ==
    IF service = "accepts" THEN [raised |-> FALSE, status_code |-> 204]
    ELSE IF service = "rejects" THEN [raised |-> FALSE, status_code |-> 404]
    ELSE [raised |-> TRUE, status_code |-> 0]

\* send_discord_notification without its except clauses
send_discord_notification_unguarded(service) ==
    LET response == requests_post(service)
    IN  IF response.raised
        THEN [raised |-> TRUE, ok |-> FALSE, message |-> "RequestException"]
        ELSE IF response.status_code \in {200, 204}
        THEN [raised |-> FALSE, ok |-> TRUE, message |-> "Notification sent successfully"]
        ELSE [raised |-> FALSE, ok |-> FALSE, message |-> "Discord API error"]

\* returns (ok, message); raised tells whether an error left the method
send_discord_notification(service) ==
    LET response == requests_post(service)
    IN  IF response.raised
        THEN [raised |-> FALSE, ok |-> FALSE, message |-> "Network error"]
        ELSE IF response.status_code \in {200, 204}
        THEN [raised |-> FALSE, ok |-> TRUE, message |-> "Notification sent successfully"]
        ELSE [raised |-> FALSE, ok |-> FALSE, message |-> "Discord API error"]

----------------------------------------------------------------------------
(* TradingEngine.check_fvg_signals *)

\* env = [symbol, webhook_url, service]: the symbol argument, what
\* db.decrypt_webhook returns, and how the remote end answers
signal_data(level, trigger_price, tap_timestamp, fvg, expected, env) ==
    [level_id |-> level.level_id,     \* not a field of the source's dict: names the level
     symbol |-> env.symbol,
     price_level |-> level.price,
     trigger_price |-> trigger_price,
     tap_timestamp |-> tap_timestamp,
     fvg_type |-> fvg.type,
     fvg_timestamp |-> fvg.timestamp,
     fvg_low |-> fvg.fvg_low,
     fvg_high |-> fvg.fvg_high,
     gap_size |-> fvg.gap_size,
     expected_type |-> IF expected = None THEN "Any" ELSE expected,
     notified |-> FALSE]

\* an update that also clears the enabled column of the row
update_price_level_triggered_disabling(db, level_id) ==
    [db EXCEPT ![level_id].triggered = TRUE, ![level_id].enabled = FALSE]

\* DatabaseManager.update_price_level_triggered(level_id, True)
update_price_level_triggered(db, level_id) ==
    [db EXCEPT ![level_id].triggered = TRUE]

\* save_signal, update_price_level_triggered, the notification when a webhook is
\* set, signals.append; st = [signals, db, emitted, tl, deliveries, raised]
emit(st, sig, env) ==
    LET saved == [st EXCEPT !.emitted = [@ EXCEPT ![sig.level_id] = @ + 1],
                            !.db = update_price_level_triggered(@, sig.level_id)]
    IN  IF env.webhook_url = Nil THEN [saved EXCEPT !.signals = Append(@, sig)]
        ELSE LET sent == send_discord_notification(env.service)
             IN  IF sent.raised
                 THEN [saved EXCEPT !.deliveries = Append(@, sent), !.raised = TRUE]
                 ELSE [saved EXCEPT !.deliveries = Append(@, sent),
                                    !.signals = Append(@, [sig EXCEPT !.notified = TRUE])]

\* body of "for tapped in newly_tapped"; an error that left an earlier iteration
\* has ended the call
newly_tapped_step(df, tapped, st, env) ==
    IF st.raised THEN st
    ELSE LET fvg == check_fvg_after_tap(df, tapped.timestamp, tapped.expected_fvg_type)
         IN  IF fvg = Nil THEN st
             ELSE emit(st, signal_data(tapped.level, tapped.candle_close, tapped.timestamp,
                                       Val(fvg), tapped.expected_fvg_type, env), env)

RECURSIVE newly_tapped_loop(_, _, _, _, _)
newly_tapped_loop(df, newly, n, st, env) ==
    IF n > Len(newly) THEN st
    ELSE newly_tapped_loop(df, newly, n + 1, newly_tapped_step(df, newly[n], st, env), env)

\* consume_tap that leaves the entry in the map
consume_tap_kept(st, level_id) == st

\* del self.triggered_levels[level_id]
consume_tap(st, level_id) == [st EXCEPT !.tl = MapDel(@, level_id)]

\* body of "for level in price_levels" (previously tapped levels)
previously_tapped_step(df, level, st, env) ==
    IF st.raised THEN st
    ELSE IF level.triggered THEN st
    ELSE IF level.level_id \notin DOMAIN st.tl THEN st
    ELSE LET tap_info == st.tl[level.level_id]
             fvg == check_fvg_after_tap(df, tap_info.tap_timestamp, tap_info.expected_fvg_type)
         IN  IF fvg = Nil THEN st
             ELSE LET emitted_st ==
                          emit(st, signal_data(level, tap_info.tap_price, tap_info.tap_timestamp,
                                               Val(fvg), tap_info.expected_fvg_type, env), env)
                  IN  IF emitted_st.raised THEN emitted_st
                      ELSE consume_tap(emitted_st, level.level_id)

RECURSIVE previously_tapped_loop(_, _, _, _, _)
previously_tapped_loop(df, pl, n, st, env) ==
    IF n > Len(pl) THEN st
    ELSE previously_tapped_loop(df, pl, n + 1, previously_tapped_step(df, pl[n], st, env), env)

\* returns [signals, db, emitted, tl, deliveries, raised]: the returned list, the
\* state the call leaves, what the notifier returned, whether an error left the call
\* check_fvg_signals without the test for empty arguments
check_fvg_signals_unchecked(pdf, fdf, pl, db, em, tl, env) ==
    LET st0 == [signals |-> <<>>, db |-> db, emitted |-> em, tl |-> tl,
                deliveries |-> <<>>, raised |-> FALSE]
        current_price == get_current_price(pdf)
    IN  IF current_price = Nil THEN st0
        ELSE LET taps == check_price_tap(pdf, pl, Val(current_price), tl)
                 st1 == newly_tapped_loop(fdf, taps.tapped, 1,
                                          [st0 EXCEPT !.tl = taps.tl], env)
             IN  previously_tapped_loop(fdf, pl, 1, st1, env)

check_fvg_signals(pdf, fdf, pl, db, em, tl, env) ==
    LET st0 == [signals |-> <<>>, db |-> db, emitted |-> em, tl |-> tl,
                deliveries |-> <<>>, raised |-> FALSE]
    IN  IF Len(pdf) = 0 \/ Len(fdf) = 0 \/ Len(pl) = 0 THEN st0
        ELSE LET current_price == get_current_price(pdf)
             IN  IF current_price = Nil THEN st0
                 ELSE LET taps == check_price_tap(pdf, pl, Val(current_price), tl)
                          st1 == newly_tapped_loop(fdf, taps.tapped, 1,
                                                   [st0 EXCEPT !.tl = taps.tl], env)
                      IN  previously_tapped_loop(fdf, pl, 1, st1, env)

----------------------------------------------------------------------------
(* IndicatorEngine.check_alert_conditions *)

\* indicator_data is Nil (None) or Some of [kind, columns, cols]: a Series has no
\* columns and its samples in cols.series, a DataFrame has cols[c] for each column c.
\* Sample values and thresholds are in units of 0.001.
Series(v) == [kind |-> "Series", columns |-> <<>>, cols |-> [series |-> v]]
DataFrame(u, l) == [kind |-> "DataFrame", columns |-> <<"upper", "lower">>,
                    cols |-> [upper |-> u, lower |-> l]]

\* 0.01, the tolerance of 'equals'
Hundredth == 10

Abs(x) == IF x < 0 THEN 0 - x ELSE x

\* dict.get(key, default) on a config whose absent keys hold Nil
get(d, key, default) == IF d[key] = Nil THEN default ELSE Val(d[key])

ColumnSet(d) == {d.columns[n] : n \in DOMAIN d.columns}

\* indicator_data.empty
is_empty(d) ==
    IF d.kind = "DataFrame" THEN Len(d.columns) = 0 \/ Len(d.cols[d.columns[1]]) = 0
    ELSE Len(d.cols.series) = 0

\* what the call did: raised (KeyError on a column that is not there) or
\* returned (triggered, details)
Returned(triggered, details) == [raised |-> FALSE, triggered |-> triggered, details |-> details]
KeyError == [raised |-> TRUE, triggered |-> FALSE, details |-> Nil]
NoAlert == Returned(FALSE, Nil)

\* value_alert whose 'equals' also accepts a difference of exactly 0.01
value_alert_equals_inclusive(condition, current, threshold) ==
    LET details == Some([current |-> current, threshold |-> threshold])
    IN  IF condition = "above" THEN Returned(current > threshold, details)
        ELSE IF condition = "below" THEN Returned(current < threshold, details)
        ELSE IF condition = "equals" THEN Returned(Abs(current - threshold) <= Hundredth, details)
        ELSE NoAlert

\* if alert_type == 'value'
value_alert(condition, current, threshold) ==
    LET details == Some([current |-> current, threshold |-> threshold])
    IN  IF condition = "above" THEN Returned(current > threshold, details)
        ELSE IF condition = "below" THEN Returned(current < threshold, details)
        ELSE IF condition = "equals" THEN Returned(Abs(current - threshold) < Hundredth, details)
        ELSE NoAlert

\* crossover_alert that also fires when current equals the threshold
crossover_alert_inclusive(condition, current, previous, threshold) ==
    LET details == Some([current |-> current, previous |-> previous, threshold |-> threshold])
    IN  IF condition = "crosses_above"
        THEN Returned(previous <= threshold /\ threshold <= current, details)
        ELSE IF condition = "crosses_below"
        THEN Returned(previous >= threshold /\ threshold >= current, details)
        ELSE NoAlert

\* elif alert_type == 'crossover' and previous is not None
crossover_alert(condition, current, previous, threshold) ==
    LET details == Some([current |-> current, previous |-> previous, threshold |-> threshold])
    IN  IF condition = "crosses_above"
        THEN Returned(previous <= threshold /\ threshold < current, details)
        ELSE IF condition = "crosses_below"
        THEN Returned(previous >= threshold /\ threshold > current, details)
        ELSE NoAlert

\* compare_alert that looks at the current samples only
compare_alert_current_only(d, condition, compare_line, current, previous) ==
    IF compare_line # Nil /\ Val(compare_line) \in ColumnSet(d)
    THEN LET c == d.cols[Val(compare_line)]
             compare_current == c[Len(c)]
             details == Some([main_current |-> current, compare_current |-> compare_current])
         IN  IF condition = "crosses_above" /\ Len(c) > 1
             THEN Returned(current > compare_current, details)
             ELSE IF condition = "crosses_below" /\ Len(c) > 1
             THEN Returned(current < compare_current, details)
             ELSE NoAlert
    ELSE NoAlert

\* elif alert_type == 'compare' and isinstance(indicator_data, pd.DataFrame);
\* compare_line is alert_config.get('compare_with'), previous is Nil or Some
compare_alert(d, condition, compare_line, current, previous) ==
    IF compare_line # Nil /\ Val(compare_line) \in ColumnSet(d)
    THEN LET c == d.cols[Val(compare_line)]
             compare_current == c[Len(c)]
             details == Some([main_current |-> current, compare_current |-> compare_current])
         IN  IF condition = "crosses_above" /\ Len(c) > 1
             THEN Returned(Val(previous) <= c[Len(c) - 1] /\ current > compare_current, details)
             ELSE IF condition = "crosses_below" /\ Len(c) > 1
             THEN Returned(Val(previous) >= c[Len(c) - 1] /\ current < compare_current, details)
             ELSE NoAlert
    ELSE NoAlert

\* evaluate_rule that treats a kind it does not know as 'value'
evaluate_rule_default_value(d, alert_config, current, previous) ==
    LET alert_type == get(alert_config, "type", "value")
        condition == get(alert_config, "condition", "above")
        threshold == get(alert_config, "value", 0)
    IN  IF alert_type = "crossover" /\ previous # Nil
        THEN crossover_alert(condition, current, Val(previous), threshold)
        ELSE IF alert_type = "compare" /\ d.kind = "DataFrame"
        THEN compare_alert(d, condition, alert_config.compare_with, current, previous)
        ELSE value_alert(condition, current, threshold)

\* the if / elif chain on alert_type, falling through to return False, None
evaluate_rule(d, alert_config, current, previous) ==
    LET alert_type == get(alert_config, "type", "value")
        condition == get(alert_config, "condition", "above")
        threshold == get(alert_config, "value", 0)
    IN  IF alert_type = "value"
        THEN value_alert(condition, current, threshold)
        ELSE IF alert_type = "crossover" /\ previous # Nil
        THEN crossover_alert(condition, current, Val(previous), threshold)
        ELSE IF alert_type = "compare" /\ d.kind = "DataFrame"
        THEN compare_alert(d, condition, alert_config.compare_with, current, previous)
        ELSE NoAlert

\* alert_config.get('line', list(indicator_data.columns)[0])
main_line(d, alert_config) == get(alert_config, "line", d.columns[1])

check_alert_conditions(indicator_data, alert_config) ==
    IF indicator_data = Nil THEN NoAlert
    ELSE LET d == Val(indicator_data)
         IN  IF is_empty(d) THEN NoAlert
             ELSE IF d.kind = "DataFrame" /\ main_line(d, alert_config) \notin ColumnSet(d)
             THEN KeyError
             ELSE LET s == IF d.kind = "DataFrame" THEN d.cols[main_line(d, alert_config)]
                           ELSE d.cols.series
                      current == s[Len(s)]
                      previous == IF Len(s) > 1 THEN Some(s[Len(s) - 1]) ELSE Nil
                  IN  evaluate_rule(d, alert_config, current, previous)

NoConfig == [type |-> Nil, condition |-> Nil, value |-> Nil, line |-> Nil, compare_with |-> Nil]

AlertIdle == [indicator_data |-> Nil, alert_config |-> NoConfig, result |-> Nil]

----------------------------------------------------------------------------
(* IndicatorEngine.execute_indicator *)

\* User code, by what running it does: whether it compiles, what its top-level
\* statements do under exec, whether they bind the name calculate, and what
\* calling calculate does. "raises" is an error derived from Exception,
\* "raises_base" one derived from BaseException only (SystemExit, or BaseException
\* itself found through ().__class__.__base__.__subclasses__()), "loops" does not end.
Behaviours == {"ok", "raises", "raises_base", "loops"}

\* which buffer the code assigns into (df['close'] = 0): none, the df its
\* calculate receives as argument, or the global name df of its namespace
Writes == {"nothing", "argument", "global"}

UserCodes ==
    [syntax : {"ok", "error"}, top_level : Behaviours,
     defines_calculate : BOOLEAN, calculate : Behaviours, writes : Writes]

NoCode == [syntax |-> "ok", top_level |-> "ok", defines_calculate |-> FALSE, calculate |-> "ok",
           writes |-> "nothing"]

\* params: None, {} or a mapping with keys
ParamsGiven == {Nil, Some({}), Some({"period"})}

\* the keys of namespace, lines 158-183
Namespace == {"pd", "np", "df", "__builtins__"}

\* the keys of namespace['__builtins__']
Builtins == {"abs", "min", "max", "sum", "len", "range", "enumerate", "zip", "round",
             "float", "int", "str", "bool", "list", "dict", "tuple", "True", "False", "None"}

\* what each bound object lets code do beyond computing on values: pd and np are
\* the whole modules (pd.read_csv and np.save open files, pd.read_csv fetches URLs,
\* np.__builtins__ holds __import__ and open)
Capabilities(name) ==
    IF name = "pd" THEN {"filesystem", "network", "reflection"}
    ELSE IF name = "np" THEN {"filesystem", "process", "reflection"}
    ELSE {}

\* what a piece of Python did: returned a value, raised, or never came back
Return(v) == [kind |-> "return", class |-> None, value |-> v]
Raise(class, text) == [kind |-> "raise", class |-> class, value |-> text]
Hang == [kind |-> "hang", class |-> None, value |-> <<>>]

\* exec(code, namespace)
exec(code) ==
    IF code.syntax = "error" THEN Raise("Exception", <<"invalid syntax">>)
    ELSE IF code.top_level = "raises" THEN Raise("Exception", <<"error at definition">>)
    ELSE IF code.top_level = "raises_base" THEN Raise("BaseException", <<"exit at definition">>)
    ELSE IF code.top_level = "loops" THEN Hang
    ELSE Return(<<>>)

\* namespace['calculate'](df, **kwargs): the value names the buffer and the
\* keyword arguments it was computed from
call_calculate(code, buffer, kwargs) ==
    IF code.calculate = "raises" THEN Raise("Exception", <<"error at call">>)
    ELSE IF code.calculate = "raises_base" THEN Raise("BaseException", <<"exit at call">>)
    ELSE IF code.calculate = "loops" THEN Hang
    ELSE Return([calculate |-> buffer, kwargs |-> kwargs])

\* the try body, lines 157-196
try_body(code, params) ==
    LET defined == exec(code)
    IN  IF defined.kind # "return" THEN defined
        ELSE IF code.defines_calculate
        THEN IF params # Nil /\ Val(params) # {}
             THEN call_calculate(code, "df", Val(params))
             ELSE call_calculate(code, "df", {})
        ELSE Raise("Exception", <<"Code must define a 'calculate' function">>)

\* except Exception as e: raise Exception(f"Indicator execution error: {str(e)}")
except_exception(r) ==
    IF r.kind = "raise" /\ r.class = "Exception"
    THEN Raise("Exception", <<"Indicator execution error: ">> \o r.value)
    ELSE r

execute_indicator(code, params) == except_exception(try_body(code, params))

\* df['close'] = 0 on a buffer, given as the list of its closes
user_write(buffer) == [k \in DOMAIN buffer |-> 0]

\* the two buffers of a run afterwards: df is the caller's DataFrame, which line
\* 190 or 192 passes to calculate, namespace_df the df.copy() of line 161, which
\* the code sees as the global name df
run_buffers(code, df) ==
    LET store == [df |-> df, namespace_df |-> df]
        after_exec == IF code.syntax = "ok" /\ code.writes = "global"
                      THEN [store EXCEPT !.namespace_df = user_write(@)]
                      ELSE store
    IN  IF exec(code).kind = "return" /\ code.defines_calculate /\ code.writes = "argument"
        THEN [after_exec EXCEPT !.df = user_write(@)]
        ELSE after_exec

SandboxIdle == [code |-> NoCode, params |-> Nil, phase |-> "idle", outcome |-> Nil,
                namespace |-> {}, builtins |-> {}, spin |-> FALSE,
                df |-> <<>>, namespace_df |-> <<>>]

----------------------------------------------------------------------------
(* check_indicator_alerts: the alert pass of the application *)

\* the DataFrame of the built-in MACD: the main line first, then the signal line
Macd(m, sg) == [kind |-> "DataFrame", columns |-> <<"macd", "signal">>,
                cols |-> [macd |-> m, signal |-> sg]]

\* a value that is neither None, a Series nor a DataFrame: it has no attribute
\* 'empty'
ListOutput == [kind |-> "list", columns |-> <<>>, cols |-> [series |-> <<>>]]

\* DatabaseManager.save_indicator_alert: the columns of the inserted row;
\* alert_data holds Nil for a key that is absent
save_indicator_alert(alert_data) ==
    [indicator_id |-> alert_data.indicator_id,
     alert_type |-> alert_data.alert_type,
     condition |-> alert_data.condition,
     value |-> get(alert_data, "value", 0),
     enabled |-> get(alert_data, "enabled", TRUE)]

\* SELECT * FROM indicator_alerts WHERE user_id = ? AND enabled = 1
get_indicator_alerts(rows) ==
    LET Enabled(row) == row.enabled IN SelectSeq(rows, Enabled)

\* alert_config = {'type': ..., 'condition': ..., 'value': alert.get('value', 0)}
pass_alert_config(row) ==
    [type |-> Some(row.alert_type), condition |-> Some(row.condition),
     value |-> Some(row.value), line |-> Nil, compare_with |-> Nil]

\* what the try block did for one alert: ind = [code, params, output] is the
\* indicator the row names, output what its calculate returns on the fetched df
PassEntry(result, triggered) == [result |-> result, triggered |-> triggered]

pass_try(row, ind) ==
    LET run == execute_indicator(ind.code, ind.params)
    IN  IF run.kind = "hang" THEN PassEntry("hang", FALSE)
        ELSE IF run.kind = "raise"
        THEN PassEntry(IF run.class = "Exception" THEN "error" ELSE "escaped", FALSE)
        ELSE IF ind.output # Nil /\ Val(ind.output).kind = "list"
        THEN PassEntry("error", FALSE)
        ELSE LET checked == check_alert_conditions(ind.output, pass_alert_config(row))
             IN  IF checked.raised THEN PassEntry("error", FALSE)
                 ELSE PassEntry("checked", checked.triggered)

\* for alert in alerts: try ... except Exception; indicators maps an
\* indicator_id to its indicator
RECURSIVE pass_loop(_, _, _, _)
pass_loop(alerts, indicators, n, log) ==
    IF n > Len(alerts) THEN [log |-> log, ended |-> "returned"]
    ELSE LET entry == pass_try(alerts[n], indicators[alerts[n].indicator_id])
         IN  IF entry.result = "escaped" THEN [log |-> log, ended |-> "raised"]
             ELSE IF entry.result = "hang" THEN [log |-> log, ended |-> "never"]
             ELSE pass_loop(alerts, indicators, n + 1, Append(log, entry))

check_indicator_alerts(rows, indicators) ==
    pass_loop(get_indicator_alerts(rows), indicators, 1, <<>>)

PassIdle == [rows |-> <<>>, log |-> <<>>, ended |-> "idle"]

----------------------------------------------------------------------------
(* The caller: level store and candle feed *)

\* DatabaseManager.get_price_levels: rows as dicts, newest level first
RECURSIVE rows_desc(_, _)
rows_desc(db, ids) ==
    IF ids = {} THEN <<>>
    ELSE LET m == CHOOSE x \in ids : \A y \in ids : y <= x
         IN  <<[level_id |-> m, price |-> db[m].price,
                enabled |-> db[m].enabled, triggered |-> db[m].triggered]>>
             \o rows_desc(db, ids \ {m})

get_price_levels(db) == rows_desc(db, DOMAIN db)

PriceCandles(k) ==
    {PriceCandle(k, lo, hi, cl) : lo \in Prices, hi \in Prices, cl \in Prices}
\* a gap needs candle[i-2] and candle[i] not to overlap: the flat candles at each
\* price give every pattern (none, Bullish, Bearish) at every index
FvgCandles(k) == {FvgCandle(k, p, p) : p \in Prices}
DetectCandles(k) == {FvgCandle(k, lo, hi) : lo \in DetectPrices, hi \in DetectPrices}
WellFormed(c) == c.low <= c.close /\ c.close <= c.high

NoCall == [called |-> FALSE, filter |-> None, start_idx |-> 0]

\* one monitored symbol, no webhook configured
HostIdle == [symbol |-> "BTCUSDT", webhook_url |-> Nil, service |-> "accepts",
             deliveries |-> <<>>, raised |-> FALSE, tap_symbol |-> <<>>]

\* a new script run: the last call's locals are gone
NewTick(h) == [h EXCEPT !.deliveries = <<>>, !.raised = FALSE]

Env(h) == [symbol |-> h.symbol, webhook_url |-> h.webhook_url, service |-> h.service]

\* history: the symbol argument of the call that created each TapState now held
TapSymbols(h, tl_before, tl_after) ==
    [l \in DOMAIN tl_after |-> IF l \in DOMAIN tl_before THEN h.tap_symbol[l] ELSE h.symbol]

Init ==
    /\ price_df = <<>>
    /\ fvg_df = <<>>
    /\ \E en \in [Levels -> BOOLEAN] :
          levels_db = [l \in Levels |-> [price |-> LevelPrice[l], enabled |-> en[l], triggered |-> FALSE]]
    /\ price_levels = <<>>
    /\ triggered_levels = <<>>
    /\ signals = <<>>
    /\ emitted = [l \in Levels |-> 0]
    /\ fvg_list = <<>>
    /\ detect_args = NoCall
    /\ alert = AlertIdle
    /\ sandbox = SandboxIdle
    /\ host = HostIdle
    /\ alert_pass = PassIdle

\* get_klines for the trigger timeframe: one more candle has opened
FetchPrice ==
    /\ Len(price_df) < MaxPriceLen
    /\ \E c \in PriceCandles(Len(price_df) + 1) :
          /\ WellFormed(c)
          /\ price_df' = Append(price_df, c)
    /\ signals' = <<>> /\ price_levels' = <<>>
    /\ host' = NewTick(host)
    /\ UNCHANGED <<fvg_df, levels_db, triggered_levels, emitted, fvg_list, detect_args, alert, sandbox, alert_pass>>

\* get_klines for the confirmation timeframe: one more candle has opened
FetchFvg ==
    /\ Len(fvg_df) < MaxFvgLen
    /\ \E c \in FvgCandles(Len(fvg_df) + 1) :
          /\ WellFormed(c)
          /\ fvg_df' = Append(fvg_df, c)
    /\ signals' = <<>> /\ price_levels' = <<>>
    /\ host' = NewTick(host)
    /\ UNCHANGED <<price_df, levels_db, triggered_levels, emitted, fvg_list, detect_args, alert, sandbox, alert_pass>>

\* a refetch in which only the still-forming last candle has moved
UpdateLive ==
    /\ \/ /\ Len(price_df) > 0
          /\ \E c \in PriceCandles(Len(price_df)) :
                /\ WellFormed(c)
                /\ price_df' = [price_df EXCEPT ![Len(price_df)] = c]
          /\ UNCHANGED fvg_df
       \/ /\ Len(fvg_df) > 0
          /\ \E c \in FvgCandles(Len(fvg_df)) :
                /\ WellFormed(c)
                /\ fvg_df' = [fvg_df EXCEPT ![Len(fvg_df)] = c]
          /\ UNCHANGED price_df
    /\ signals' = <<>> /\ price_levels' = <<>>
    /\ host' = NewTick(host)
    /\ UNCHANGED <<levels_db, triggered_levels, emitted, fvg_list, detect_args, alert, sandbox, alert_pass>>

\* one evaluation: the caller reads the levels and calls check_fvg_signals
Evaluate ==
    LET pl == get_price_levels(levels_db)
        r == check_fvg_signals(price_df, fvg_df, pl, levels_db, emitted, triggered_levels, Env(host))
    IN  /\ price_levels' = pl
        /\ signals' = IF r.raised THEN <<>> ELSE r.signals
        /\ levels_db' = r.db
        /\ emitted' = r.emitted
        /\ triggered_levels' = r.tl
        /\ host' = [host EXCEPT !.deliveries = r.deliveries, !.raised = r.raised,
                                !.tap_symbol = TapSymbols(host, triggered_levels, r.tl)]
        /\ UNCHANGED <<price_df, fvg_df, fvg_list, detect_args, alert, sandbox, alert_pass>>

Next == FetchPrice \/ FetchFvg \/ UpdateLive \/ Evaluate

Spec == Init /\ [][Next]_vars

----------------------------------------------------------------------------
(* detect_fvg called on its own, over every candle series within the bounds *)

RECURSIVE SeriesOfLen(_)
SeriesOfLen(n) ==
    IF n = 0 THEN {<<>>}
    ELSE {Append(s, c) : s \in SeriesOfLen(n - 1),
                         c \in {d \in DetectCandles(n) : WellFormed(d)}}

DetectStarts == 0 .. 3

InitDetect ==
    /\ fvg_df \in UNION {SeriesOfLen(n) : n \in 0 .. MaxDetectLen}
    /\ price_df = <<>>
    /\ levels_db = [l \in Levels |-> [price |-> LevelPrice[l], enabled |-> TRUE, triggered |-> FALSE]]
    /\ price_levels = <<>>
    /\ triggered_levels = <<>>
    /\ signals = <<>>
    /\ emitted = [l \in Levels |-> 0]
    /\ fvg_list = <<>>
    /\ detect_args = NoCall
    /\ alert = AlertIdle
    /\ sandbox = SandboxIdle
    /\ host = HostIdle
    /\ alert_pass = PassIdle

\* fvg_list = detect_fvg(df, fvg_type_filter, start_idx)
DetectFvg ==
    /\ \E f \in Filters, st \in DetectStarts :
          /\ detect_args' = [called |-> TRUE, filter |-> f, start_idx |-> st]
          /\ fvg_list' = detect_fvg(fvg_df, f, st)
    /\ UNCHANGED <<price_df, fvg_df, levels_db, price_levels, triggered_levels, signals, emitted, alert, sandbox, host, alert_pass>>

\* the same call again after a refetch in which only the last candle differs
DetectFvgLive ==
    /\ detect_args.called
    /\ Len(fvg_df) > 0
    /\ \E c \in DetectCandles(Len(fvg_df)) :
          /\ WellFormed(c)
          /\ fvg_df' = [fvg_df EXCEPT ![Len(fvg_df)] = c]
    /\ fvg_list' = detect_fvg(fvg_df', detect_args.filter, detect_args.start_idx)
    /\ UNCHANGED <<price_df, levels_db, price_levels, triggered_levels, signals, emitted, detect_args, alert, sandbox, host, alert_pass>>

NextDetect == DetectFvg \/ DetectFvgLive

SpecDetect == InitDetect /\ [][NextDetect]_vars

----------------------------------------------------------------------------
(* The expected direction at tap time, over prices around the 0.1% band *)

DirCloses == {2000, 4000}

\* around each close c: c * 0.9985, c * 0.999, c, c * 1.001, c * 1.0015 and neighbours
DirLevelPrices == {1997, 1998, 1999, 2000, 2001, 2002, 2003, 3994, 3996, 4000, 4004, 4006}

\* a candle wide enough to contain every level price
DirCandle(k, cl) == [timestamp |-> PriceTs(k), low |-> 1, high |-> 5000, close |-> cl]

RECURSIVE DirSeriesOfLen(_)
DirSeriesOfLen(n) ==
    IF n = 0 THEN {<<>>}
    ELSE {Append(s, DirCandle(n, cl)) : s \in DirSeriesOfLen(n - 1), cl \in DirCloses}

InitDirection ==
    /\ price_df \in DirSeriesOfLen(2) \cup DirSeriesOfLen(3)
    /\ fvg_df = <<FvgCandle(1, 1, 1)>>
    /\ \E pr \in [Levels -> DirLevelPrices] :
          levels_db = [l \in Levels |-> [price |-> pr[l], enabled |-> TRUE, triggered |-> FALSE]]
    /\ price_levels = <<>>
    /\ triggered_levels = <<>>
    /\ signals = <<>>
    /\ emitted = [l \in Levels |-> 0]
    /\ fvg_list = <<>>
    /\ detect_args = NoCall
    /\ alert = AlertIdle
    /\ sandbox = SandboxIdle
    /\ host = HostIdle
    /\ alert_pass = PassIdle

NextDirection == Evaluate

SpecDirection == InitDirection /\ [][NextDirection]_vars

----------------------------------------------------------------------------
(* One level at 101 and trigger candles around it *)

ScenarioLevel == 101

\* [low, high, close]: the tapping candle, a candle below the level closing at 95,
\* and a candle through the level closing above it
ScenarioShapes == {<<99, 102, 100>>, <<94, 96, 95>>, <<100, 103, 102>>}

ScenarioCandles(k) == {PriceCandle(k, sh[1], sh[2], sh[3]) : sh \in ScenarioShapes}

InitScenario ==
    /\ price_df = <<>>
    /\ fvg_df = <<>>
    /\ levels_db = [l \in Levels |-> [price |-> ScenarioLevel, enabled |-> (l = 1), triggered |-> FALSE]]
    /\ price_levels = <<>>
    /\ triggered_levels = <<>>
    /\ signals = <<>>
    /\ emitted = [l \in Levels |-> 0]
    /\ fvg_list = <<>>
    /\ detect_args = NoCall
    /\ alert = AlertIdle
    /\ sandbox = SandboxIdle
    /\ host = HostIdle
    /\ alert_pass = PassIdle

FetchScenarioPrice ==
    /\ Len(price_df) < MaxPriceLen
    /\ \E c \in ScenarioCandles(Len(price_df) + 1) :
          /\ WellFormed(c)
          /\ price_df' = Append(price_df, c)
    /\ signals' = <<>> /\ price_levels' = <<>>
    /\ host' = NewTick(host)
    /\ UNCHANGED <<fvg_df, levels_db, triggered_levels, emitted, fvg_list, detect_args, alert, sandbox, alert_pass>>

NextScenario == FetchScenarioPrice \/ FetchFvg \/ Evaluate

SpecScenario == InitScenario /\ [][NextScenario]_vars

----------------------------------------------------------------------------
(* check_alert_conditions called on its own, over indicator outputs and rules *)

Threshold == 1000
SeriesValues == {990, 995, 1000, 1010}
FrameValues == {990, 1000, 1010}

RECURSIVE SamplesOfLen(_, _)
SamplesOfLen(n, values) ==
    IF n = 0 THEN {<<>>}
    ELSE {Append(s, v) : s \in SamplesOfLen(n - 1, values), v \in values}

\* None, a Series, or a DataFrame whose two columns have the same length
IndicatorOutputs ==
    {Nil}
      \cup {Some(Series(v)) : v \in UNION {SamplesOfLen(n, SeriesValues) : n \in 0 .. MaxSamples}}
      \cup UNION {{Some(DataFrame(u, l)) : u \in SamplesOfLen(n, FrameValues),
                                            l \in SamplesOfLen(n, FrameValues)} :
                  n \in 0 .. MaxSamples}

AlertTypes == {"value", "crossover", "compare", "unknown"}
Conditions == {"above", "below", "equals", "crosses_above", "crosses_below"}
LineNames == {"upper", "lower", "missing"}

Optional(S) == {Nil} \cup {Some(x) : x \in S}

AlertConfigs ==
    [type : Optional(AlertTypes), condition : Optional(Conditions), value : {Some(Threshold)},
     line : Optional(LineNames), compare_with : Optional(LineNames)]

InitAlert ==
    /\ price_df = <<>>
    /\ fvg_df = <<>>
    /\ levels_db = [l \in Levels |-> [price |-> LevelPrice[l], enabled |-> TRUE, triggered |-> FALSE]]
    /\ price_levels = <<>>
    /\ triggered_levels = <<>>
    /\ signals = <<>>
    /\ emitted = [l \in Levels |-> 0]
    /\ fvg_list = <<>>
    /\ detect_args = NoCall
    /\ \E out \in IndicatorOutputs, cfg \in AlertConfigs :
          alert = [indicator_data |-> out, alert_config |-> cfg, result |-> Nil]
    /\ sandbox = SandboxIdle
    /\ host = HostIdle
    /\ alert_pass = PassIdle

\* triggered, details = indicator_engine.check_alert_conditions(indicator_data, alert_config)
CheckAlert ==
    /\ alert.result = Nil
    /\ alert' = [alert EXCEPT
                   !.result = Some(check_alert_conditions(alert.indicator_data, alert.alert_config))]
    /\ UNCHANGED <<price_df, fvg_df, levels_db, price_levels, triggered_levels,
                   signals, emitted, fvg_list, detect_args, sandbox, host, alert_pass>>

NextAlert == CheckAlert

SpecAlert == InitAlert /\ [][NextAlert]_vars

----------------------------------------------------------------------------
(* execute_indicator called on its own, over the behaviours of user code *)

\* the closes of the candles the caller fetched and passes as df
FetchedCloses == <<100, 95>>

InitSandbox ==
    /\ price_df = <<>>
    /\ fvg_df = <<>>
    /\ levels_db = [l \in Levels |-> [price |-> LevelPrice[l], enabled |-> TRUE, triggered |-> FALSE]]
    /\ price_levels = <<>>
    /\ triggered_levels = <<>>
    /\ signals = <<>>
    /\ emitted = [l \in Levels |-> 0]
    /\ fvg_list = <<>>
    /\ detect_args = NoCall
    /\ alert = AlertIdle
    /\ \E code \in UserCodes, params \in ParamsGiven :
          sandbox = [SandboxIdle EXCEPT !.code = code, !.params = params,
                                        !.df = FetchedCloses]
    /\ host = HostIdle
    /\ alert_pass = PassIdle

\* indicator_data = indicator_engine.execute_indicator(code, df, params): the call
\* comes back with an outcome, or stays inside user code that does not end
ExecuteIndicator ==
    /\ sandbox.phase = "idle"
    /\ LET r == execute_indicator(sandbox.code, sandbox.params)
           buffers == run_buffers(sandbox.code, sandbox.df)
       IN  sandbox' = [sandbox EXCEPT
                         !.df = buffers.df,
                         !.namespace_df = buffers.namespace_df,
                         !.namespace = Namespace,
                         !.builtins = Builtins,
                         !.phase = IF r.kind = "hang" THEN "running" ELSE "done",
                         !.outcome = IF r.kind = "hang" THEN Nil ELSE Some(r)]
    /\ UNCHANGED <<price_df, fvg_df, levels_db, price_levels, triggered_levels,
                   signals, emitted, fvg_list, detect_args, alert, host, alert_pass>>

\* one more iteration of user code that does not end; nothing interrupts it
Spin ==
    /\ sandbox.phase = "running"
    /\ sandbox' = [sandbox EXCEPT !.spin = ~@]
    /\ UNCHANGED <<price_df, fvg_df, levels_db, price_levels, triggered_levels,
                   signals, emitted, fvg_list, detect_args, alert, host, alert_pass>>

NextSandbox == ExecuteIndicator \/ Spin

SpecSandbox == InitSandbox /\ [][NextSandbox]_vars

\* the interpreter keeps running the thread that is inside the call
SpecSandboxFair == SpecSandbox /\ WF_vars(ExecuteIndicator) /\ WF_vars(Spin)

----------------------------------------------------------------------------
(* The scenario feed with a webhook that is set or not and a remote end that *)
(* accepts, rejects or cannot be reached                                     *)

Webhooks == {Nil, Some("https://discord.com/api/webhooks/1")}

\* no webhook (the remote end is never asked), or a webhook and each kind of answer
NotifyHosts ==
    {HostIdle} \cup {[HostIdle EXCEPT !.webhook_url = w, !.service = sv] :
                        w \in Webhooks \ {Nil}, sv \in Services}

\* [low, high, close]: a candle through the level at 101 and one below it
TapShapes == {<<99, 102, 100>>, <<94, 96, 95>>}

TapCandles(k) == {PriceCandle(k, sh[1], sh[2], sh[3]) : sh \in TapShapes}

\* get_klines for the trigger timeframe: one more candle has opened
FetchTapPrice ==
    /\ Len(price_df) < MaxPriceLen
    /\ \E c \in TapCandles(Len(price_df) + 1) :
          price_df' = Append(price_df, c)
    /\ signals' = <<>> /\ price_levels' = <<>>
    /\ host' = NewTick(host)
    /\ UNCHANGED <<fvg_df, levels_db, triggered_levels, emitted, fvg_list, detect_args, alert, sandbox, alert_pass>>

InitNotify ==
    /\ price_df = <<>>
    /\ fvg_df = <<>>
    /\ levels_db = [l \in Levels |-> [price |-> ScenarioLevel, enabled |-> TRUE, triggered |-> FALSE]]
    /\ price_levels = <<>>
    /\ triggered_levels = <<>>
    /\ signals = <<>>
    /\ emitted = [l \in Levels |-> 0]
    /\ fvg_list = <<>>
    /\ detect_args = NoCall
    /\ alert = AlertIdle
    /\ sandbox = SandboxIdle
    /\ host \in NotifyHosts
    /\ alert_pass = PassIdle

NextNotify == FetchTapPrice \/ FetchFvg \/ Evaluate

SpecNotify == InitNotify /\ [][NextNotify]_vars

----------------------------------------------------------------------------
(* One engine called for one symbol, then for another *)

Symbols == {"BTCUSDT", "ETHUSDT"}

InitSymbols ==
    /\ price_df = <<>>
    /\ fvg_df = <<>>
    /\ levels_db = [l \in Levels |-> [price |-> ScenarioLevel, enabled |-> (l = 1), triggered |-> FALSE]]
    /\ price_levels = <<>>
    /\ triggered_levels = <<>>
    /\ signals = <<>>
    /\ emitted = [l \in Levels |-> 0]
    /\ fvg_list = <<>>
    /\ detect_args = NoCall
    /\ alert = AlertIdle
    /\ sandbox = SandboxIdle
    /\ host = HostIdle
    /\ alert_pass = PassIdle

\* the symbol setting changes: both series are fetched anew, for the other symbol;
\* the levels are the user's, the same for every symbol
SwitchSymbol ==
    /\ \E sym \in Symbols \ {host.symbol} :
          host' = [NewTick(host) EXCEPT !.symbol = sym]
    /\ price_df' = <<>> /\ fvg_df' = <<>>
    /\ signals' = <<>> /\ price_levels' = <<>>
    /\ UNCHANGED <<levels_db, triggered_levels, emitted, fvg_list, detect_args, alert, sandbox, alert_pass>>

NextSymbols == FetchTapPrice \/ FetchFvg \/ SwitchSymbol \/ Evaluate

SpecSymbols == InitSymbols /\ [][NextSymbols]_vars

----------------------------------------------------------------------------
(* One engine and levels whose enabled flag is cleared between calls *)

InitToggle ==
    /\ price_df = <<>>
    /\ fvg_df = <<>>
    /\ levels_db = [l \in Levels |-> [price |-> ScenarioLevel, enabled |-> TRUE, triggered |-> FALSE]]
    /\ price_levels = <<>>
    /\ triggered_levels = <<>>
    /\ signals = <<>>
    /\ emitted = [l \in Levels |-> 0]
    /\ fvg_list = <<>>
    /\ detect_args = NoCall
    /\ alert = AlertIdle
    /\ sandbox = SandboxIdle
    /\ host = HostIdle
    /\ alert_pass = PassIdle

\* the enabled column of a price_levels row is set to 0
DisableLevel ==
    /\ \E l \in Levels :
          /\ levels_db[l].enabled
          /\ levels_db' = [levels_db EXCEPT ![l].enabled = FALSE]
    /\ signals' = <<>> /\ price_levels' = <<>>
    /\ host' = NewTick(host)
    /\ UNCHANGED <<price_df, fvg_df, triggered_levels, emitted, fvg_list, detect_args, alert, sandbox, alert_pass>>

NextToggle == FetchTapPrice \/ FetchFvg \/ DisableLevel \/ Evaluate

SpecToggle == InitToggle /\ [][NextToggle]_vars

----------------------------------------------------------------------------
(* The refresh loop of the application: every run of the script builds its
   engine anew, fetches both series, evaluates once, sleeps and reruns *)

InitHost ==
    /\ price_df = <<>>
    /\ fvg_df = <<>>
    /\ levels_db = [l \in Levels |-> [price |-> ScenarioLevel, enabled |-> TRUE, triggered |-> FALSE]]
    /\ price_levels = <<>>
    /\ triggered_levels = <<>>
    /\ signals = <<>>
    /\ emitted = [l \in Levels |-> 0]
    /\ fvg_list = <<>>
    /\ detect_args = NoCall
    /\ alert = AlertIdle
    /\ sandbox = SandboxIdle
    /\ host = HostIdle
    /\ alert_pass = PassIdle

\* st.rerun(): the script starts again from its first line and assigns
\* trading_engine = TradingEngine(db, notification_manager)
Rerun ==
    /\ price_levels # <<>>
    /\ triggered_levels' = <<>>
    /\ signals' = <<>> /\ price_levels' = <<>>
    /\ host' = [NewTick(host) EXCEPT !.tap_symbol = <<>>]
    /\ UNCHANGED <<price_df, fvg_df, levels_db, emitted, fvg_list, detect_args, alert, sandbox, alert_pass>>

HostFetchPrice == price_levels = <<>> /\ FetchTapPrice

HostFetchFvg == price_levels = <<>> /\ FetchFvg

HostEvaluate == price_levels = <<>> /\ Evaluate

NextHost == Rerun \/ HostFetchPrice \/ HostFetchFvg \/ HostEvaluate

SpecHost == InitHost /\ [][NextHost]_vars

----------------------------------------------------------------------------
(* The three entry points of the engine called on short and empty inputs: the
   user has no level or one level, and either series may still be empty *)

TapTimes == {0, 1}

InitCalls ==
    /\ price_df = <<>>
    /\ fvg_df = <<>>
    /\ \E ids \in {{}, {1}, {1, 2}} :
          levels_db = [l \in ids |-> [price |-> ScenarioLevel, enabled |-> TRUE, triggered |-> FALSE]]
    /\ price_levels = <<>>
    /\ triggered_levels = <<>>
    /\ signals = <<>>
    /\ emitted = [l \in Levels |-> 0]
    /\ fvg_list = <<>>
    /\ detect_args = NoCall
    /\ alert = AlertIdle
    /\ sandbox = SandboxIdle
    /\ host = HostIdle
    /\ alert_pass = PassIdle

\* fvg = check_fvg_after_tap(fvg_df, tap_timestamp, expected_fvg_type), kept as
\* the list of what was returned: empty for None
CheckFvgAfterTap ==
    /\ \E f \in Filters, ts \in TapTimes :
          LET fvg == check_fvg_after_tap(fvg_df, ts, f)
          IN  /\ detect_args' = [called |-> TRUE, filter |-> f, start_idx |-> 2, tap_timestamp |-> ts]
              /\ fvg_list' = IF fvg = Nil THEN <<>> ELSE <<Val(fvg)>>
    /\ UNCHANGED <<price_df, fvg_df, levels_db, price_levels, triggered_levels, signals, emitted, alert, sandbox, host, alert_pass>>

NextCalls == FetchTapPrice \/ FetchFvg \/ CheckFvgAfterTap \/ Evaluate

SpecCalls == InitCalls /\ [][NextCalls]_vars

----------------------------------------------------------------------------
(* Alerts saved through the alert manager and checked by the alert pass *)

MaxAlerts == 2

OkCode == [syntax |-> "ok", top_level |-> "ok", defines_calculate |-> TRUE, calculate |-> "ok",
           writes |-> "nothing"]

\* the indicators an alert can name: what their code does and what calculate
\* returns on the fetched candles
Indicators ==
    [macd_up   |-> [code |-> OkCode, params |-> Some({"fast", "slow", "signal"}),
                    output |-> Some(Macd(<<990, 1010>>, <<1000, 1000>>))],
     macd_down |-> [code |-> OkCode, params |-> Some({"fast", "slow", "signal"}),
                    output |-> Some(Macd(<<1010, 990>>, <<1000, 1000>>))],
     rsi       |-> [code |-> OkCode, params |-> Some({"period"}),
                    output |-> Some(Series(<<990, 1010>>))],
     raising   |-> [code |-> [OkCode EXCEPT !.calculate = "raises"], params |-> Some({}),
                    output |-> Nil],
     exiting   |-> [code |-> [OkCode EXCEPT !.calculate = "raises_base"], params |-> Some({}),
                    output |-> Nil],
     looping   |-> [code |-> [OkCode EXCEPT !.calculate = "loops"], params |-> Some({}),
                    output |-> Nil],
     listing   |-> [code |-> OkCode, params |-> Some({}), output |-> Some(ListOutput)]]

IndicatorIds == DOMAIN Indicators

\* alert_config as alert_manager_ui builds it for the three alert types
UiAlertConfigs ==
    [indicator_id : IndicatorIds, alert_type : {"value"},
     condition : {"above", "below", "equals"}, value : {Some(Threshold)},
     compare_with : {Nil}, enabled : {Nil}]
      \cup [indicator_id : IndicatorIds, alert_type : {"crossover"},
            condition : {"crosses_above", "crosses_below"}, value : {Some(Threshold)},
            compare_with : {Nil}, enabled : {Nil}]
      \cup [indicator_id : IndicatorIds, alert_type : {"compare"},
            condition : {"crosses_above", "crosses_below"}, value : {Nil},
            compare_with : {Some("signal")}, enabled : {Nil}]

InitPass ==
    /\ price_df = <<>>
    /\ fvg_df = <<>>
    /\ levels_db = [l \in Levels |-> [price |-> LevelPrice[l], enabled |-> TRUE, triggered |-> FALSE]]
    /\ price_levels = <<>>
    /\ triggered_levels = <<>>
    /\ signals = <<>>
    /\ emitted = [l \in Levels |-> 0]
    /\ fvg_list = <<>>
    /\ detect_args = NoCall
    /\ alert = AlertIdle
    /\ sandbox = SandboxIdle
    /\ host = HostIdle
    /\ alert_pass = PassIdle

\* "Save Alert" in the alert manager
SaveIndicatorAlert ==
    /\ Len(alert_pass.rows) < MaxAlerts
    /\ \E alert_data \in UiAlertConfigs :
          alert_pass' = [rows |-> Append(alert_pass.rows, save_indicator_alert(alert_data)),
                         log |-> <<>>, ended |-> "idle"]
    /\ UNCHANGED <<price_df, fvg_df, levels_db, price_levels, triggered_levels, signals,
                   emitted, fvg_list, detect_args, alert, sandbox, host>>

\* one pass of the refresh tick over the saved alerts
CheckIndicatorAlerts ==
    /\ alert_pass.ended = "idle"
    /\ LET done == check_indicator_alerts(alert_pass.rows, Indicators)
       IN  alert_pass' = [alert_pass EXCEPT !.log = done.log, !.ended = done.ended]
    /\ UNCHANGED <<price_df, fvg_df, levels_db, price_levels, triggered_levels, signals,
                   emitted, fvg_list, detect_args, alert, sandbox, host>>

NextPass == SaveIndicatorAlert \/ CheckIndicatorAlerts

SpecPass == InitPass /\ [][NextPass]_vars

----------------------------------------------------------------------------
(* What the properties speak of, stated on the candle series themselves *)

\* positions of the completed candles (all but the live last one)
Completed(df) == 1 .. (Len(df) - 1)

Contains(c, price) == c.low <= price /\ price <= c.high

\* completed trigger candles whose range contains the price of level l
TapPositions(l) == {k \in Completed(price_df) : Contains(price_df[k], LevelPrice[l])}

FirstTapPosition(l) == CHOOSE k \in TapPositions(l) : \A j \in TapPositions(l) : k <= j

BullishAt(df, k) == df[k - 2].high < df[k].low
BearishAt(df, k) == df[k - 2].low > df[k].high

\* dir is a filter (None: either direction) or a signal's expected_type ("Any")
GapAt(df, k, dir) ==
    \/ dir \in {None, "Any", "Bullish"} /\ BullishAt(df, k)
    \/ dir \in {None, "Any", "Bearish"} /\ BearishAt(df, k)

\* positions k of completed confirmation candles closing a gap of direction dir
\* whose three candles k-2, k-1, k are all strictly after ts
GapPositions(df, ts, dir) ==
    {k \in Completed(df) : k >= 3 /\ df[k - 2].timestamp > ts /\ GapAt(df, k, dir)}

SignalsFor(sigs, l) == {i \in DOMAIN sigs : sigs[i].level_id = l}

\* the call of the current tick has run
Evaluated == price_levels # <<>>

PassedRecord(l) == CHOOSE n \in DOMAIN price_levels : price_levels[n].level_id = l

----------------------------------------------------------------------------
(* Properties *)

\* C1: a level whose history holds one tap followed by one confirming gap emits
\* exactly one Signal over all calls: never more than one, and exactly one once
\* it has fired.
OneTapOneGap(l) ==
    /\ Cardinality(TapPositions(l)) = 1
    /\ Cardinality(GapPositions(fvg_df, price_df[FirstTapPosition(l)].timestamp, None)) = 1

C1_ExactlyOneSignal ==
    \A l \in Levels :
        OneTapOneGap(l) =>
            /\ emitted[l] <= 1
            /\ levels_db[l].triggered => emitted[l] = 1

\* C2: the list returned by one call holds at most one Signal per level.
C2_OneSignalPerLevelPerCall ==
    \A l \in Levels : Cardinality(SignalsFor(signals, l)) <= 1

\* C3: when a call emits a Signal for a level, the level is marked triggered when
\* the call returns, in the store and in the level record the call was given.
C3_TriggeredMarked ==
    \A i \in DOMAIN signals :
        /\ levels_db[signals[i].level_id].triggered
        /\ price_levels[PassedRecord(signals[i].level_id)].triggered

\* C4: after a call that emitted a Signal for a level the engine holds no TapState
\* for it, and a level that has fired emits nothing in any later call.
C4_NoTapStateHeld ==
    \A i \in DOMAIN signals : signals[i].level_id \notin DOMAIN triggered_levels

C4_NoLaterEmission ==
    \A l \in Levels : levels_db[l].triggered => emitted'[l] = emitted[l]

C4_TapStateConsumed == [](C4_NoTapStateHeld) /\ [][C4_NoLaterEmission]_vars

C4_Witness ==
    \E i \in DOMAIN signals :
        /\ emitted[signals[i].level_id] = 1
        /\ signals[i].level_id \notin DOMAIN triggered_levels

\* C5: a level holding a TapState with no qualifying gap after the tap emits
\* nothing and keeps its TapState, field for field, whatever the trigger series
\* and current price now are.
C5_Step ==
    \A l \in DOMAIN triggered_levels :
        GapPositions(fvg_df, triggered_levels[l].tap_timestamp,
                     triggered_levels[l].expected_fvg_type) = {}
        => /\ l \in DOMAIN triggered_levels'
           /\ triggered_levels'[l] = triggered_levels[l]
           /\ SignalsFor(signals', l) = {}
           /\ emitted'[l] = emitted[l]

C5_TapStatePersists == [][C5_Step]_vars

\* evaluated with a stored TapState whose direction would now come out differently
C5_Witness ==
    /\ Evaluated
    /\ Len(price_df) >= 2
    /\ \E l \in DOMAIN triggered_levels :
          /\ GapPositions(fvg_df, triggered_levels[l].tap_timestamp,
                          triggered_levels[l].expected_fvg_type) = {}
          /\ Len(fvg_df) >= 4
          /\ triggered_levels[l].expected_fvg_type
                # determine_fvg_type(LevelPrice[l], price_df[Len(price_df) - 1].close)

\* C6: every emitted Signal carries the earliest gap of the expected direction
\* among the completed confirmation candles strictly after the tap.
C6_EarliestGapAfterTap ==
    \A i \in DOMAIN signals :
        LET sig == signals[i]
            Q == GapPositions(fvg_df, sig.tap_timestamp, sig.expected_type)
        IN  /\ Q # {}
            /\ LET k == CHOOSE x \in Q : \A y \in Q : x <= y
               IN  /\ sig.fvg_timestamp = fvg_df[k].timestamp
                   /\ fvg_df[k - 2].timestamp > sig.tap_timestamp
                   /\ k < Len(fvg_df)
                   /\ sig.fvg_type = (IF BullishAt(fvg_df, k) THEN "Bullish" ELSE "Bearish")
                   /\ sig.expected_type \in FvgTypes => sig.fvg_type = sig.expected_type
                   /\ sig.fvg_low = (IF BullishAt(fvg_df, k) THEN fvg_df[k - 2].high ELSE fvg_df[k].high)
                   /\ sig.fvg_high = (IF BullishAt(fvg_df, k) THEN fvg_df[k].low ELSE fvg_df[k - 2].low)

\* a directed Signal whose tap excludes the first confirmation candles
C6_Witness ==
    \E i \in DOMAIN signals :
        /\ signals[i].tap_timestamp >= FvgTs(1)
        /\ signals[i].expected_type \in FvgTypes

\* C7: a disabled or triggered level is skipped by tap detection, and a level
\* holding a TapState never has it overwritten by a later call.
C7_Step ==
    \A l \in Levels :
        /\ (l \in DOMAIN triggered_levels /\ l \in DOMAIN triggered_levels')
              => triggered_levels'[l] = triggered_levels[l]
        /\ ((~levels_db[l].enabled \/ levels_db[l].triggered) /\ l \notin DOMAIN triggered_levels)
              => (l \notin DOMAIN triggered_levels' /\ SignalsFor(signals', l) = {})

C7_TapSkipped == [][C7_Step]_vars

\* a call made with a triggered level whose price a completed candle contains
C7_Witness ==
    /\ Evaluated
    /\ \E l \in Levels :
          /\ price_levels[PassedRecord(l)].triggered
          /\ TapPositions(l) # {}
          /\ l \notin DOMAIN triggered_levels

\* C8: a new TapState records the first completed candle containing the level
\* price; the live candle never taps, and an eligible level with such a candle is
\* tapped by the call.
IsEvaluateStep == price_levels' # <<>> /\ UNCHANGED <<price_df, fvg_df>>

Eligible(l) ==
    levels_db[l].enabled /\ ~levels_db[l].triggered /\ l \notin DOMAIN triggered_levels

C8_Step ==
    \A l \in Levels :
        /\ (l \notin DOMAIN triggered_levels /\ l \in DOMAIN triggered_levels')
              => /\ TapPositions(l) # {}
                 /\ triggered_levels'[l].tap_index = FirstTapPosition(l) - 1
                 /\ triggered_levels'[l].tap_timestamp = price_df[FirstTapPosition(l)].timestamp
                 /\ triggered_levels'[l].tap_price = LevelPrice[l]
        /\ (l \notin DOMAIN triggered_levels /\ SignalsFor(signals', l) # {})
              => /\ TapPositions(l) # {}
                 /\ \A i \in SignalsFor(signals', l) :
                       signals'[i].tap_timestamp = price_df[FirstTapPosition(l)].timestamp
        /\ (IsEvaluateStep /\ Eligible(l) /\ TapPositions(l) # {} /\ Len(fvg_df) > 0)
              => (l \in DOMAIN triggered_levels' \/ SignalsFor(signals', l) # {})

C9_Expected(i) ==
    \* i is the source's 0-based index; candle[i] is fvg_df[i + 1]
    IF fvg_df[i - 1].high < fvg_df[i + 1].low
    THEN [type |-> "Bullish", fvg_low |-> fvg_df[i - 1].high, fvg_high |-> fvg_df[i + 1].low]
    ELSE [type |-> "Bearish", fvg_low |-> fvg_df[i + 1].high, fvg_high |-> fvg_df[i - 1].low]

C9_Indices ==
    {i \in Max(2, detect_args.start_idx) .. (Len(fvg_df) - 2) :
        \/ fvg_df[i - 1].high < fvg_df[i + 1].low
        \/ fvg_df[i - 1].low > fvg_df[i + 1].high}

C9_DetectRule ==
    (detect_args.called /\ detect_args.filter = None) =>
        /\ {fvg_list[n].index : n \in DOMAIN fvg_list} = C9_Indices
        /\ \A n, m \in DOMAIN fvg_list : n < m => fvg_list[n].index < fvg_list[m].index
        /\ \A n \in DOMAIN fvg_list :
              LET f == fvg_list[n]
                  e == C9_Expected(f.index)
              IN  /\ f.type = e.type
                  /\ f.fvg_low = e.fvg_low
                  /\ f.fvg_high = e.fvg_high
                  /\ f.fvg_high > f.fvg_low
                  /\ f.gap_size = f.fvg_high - f.fvg_low

\* an unfiltered call that returned a gap of each direction
C9_Witness ==
    /\ detect_args.called /\ detect_args.filter = None
    /\ \E n, m \in DOMAIN fvg_list :
          fvg_list[n].type = "Bullish" /\ fvg_list[m].type = "Bearish"

\* C10: the live last candle never influences detection: series that agree on
\* all but the last candle give the same result, and no returned gap has the
\* last candle among its three candles.
C10_LastNotUsed ==
    \A n \in DOMAIN fvg_list : fvg_list[n].index + 1 < Len(fvg_df)

C10_SameResult ==
    (/\ detect_args.called
     /\ detect_args' = detect_args
     /\ Len(fvg_df') = Len(fvg_df)
     /\ \A k \in Completed(fvg_df) : fvg_df'[k] = fvg_df[k])
    => fvg_list' = fvg_list

C10_LiveCandleExcluded == [](C10_LastNotUsed) /\ [][C10_SameResult]_vars

\* a non-empty result while the live candle would close a gap if it counted
C10_Witness ==
    /\ detect_args.called
    /\ Len(fvg_list) > 0
    /\ Len(fvg_df) >= 4
    /\ (BullishAt(fvg_df, Len(fvg_df)) \/ BearishAt(fvg_df, Len(fvg_df)))

\* C11: with a direction filter d, detect_fvg returns a gap at index i exactly
\* when d's condition holds at i; no gap of the other direction is returned and
\* none hides a gap of direction d.
C11_Condition(d, i) ==
    IF d = "Bullish" THEN fvg_df[i - 1].high < fvg_df[i + 1].low
    ELSE fvg_df[i - 1].low > fvg_df[i + 1].high

C11_FilterRule ==
    (detect_args.called /\ detect_args.filter \in FvgTypes) =>
        /\ {fvg_list[n].index : n \in DOMAIN fvg_list}
             = {i \in Max(2, detect_args.start_idx) .. (Len(fvg_df) - 2) :
                   C11_Condition(detect_args.filter, i)}
        /\ \A n, m \in DOMAIN fvg_list : n < m => fvg_list[n].index < fvg_list[m].index
        /\ \A n \in DOMAIN fvg_list : fvg_list[n].type = detect_args.filter

\* a Bearish-filtered call that returned a gap from a series that also holds a
\* Bullish gap in the scanned range
C11_Witness ==
    /\ detect_args.called /\ detect_args.filter = "Bearish"
    /\ Len(fvg_list) > 0
    /\ \E i \in Max(2, detect_args.start_idx) .. (Len(fvg_df) - 2) :
          C11_Condition("Bullish", i)

\* C12: the expected direction stored at tap time comes from the close of the
\* last completed trigger candle (second-to-last of the series): Bearish iff
\* level > close * 1.001, Bullish iff level < close * 0.999, unset otherwise; so
\* level = close * 1.0015 is Bearish, level = close * 0.9985 is Bullish and
\* level = close is unset.
C12_DirectionRule ==
    \A l \in DOMAIN triggered_levels :
        LET level == levels_db[l].price
            close == price_df[Len(price_df) - 1].close
            dir == triggered_levels[l].expected_fvg_type
        IN  /\ dir = "Bearish" <=> level * 1000 > close * 1001
            /\ dir = "Bullish" <=> level * 1000 < close * 999
            /\ dir = None <=> (level * 1000 <= close * 1001 /\ level * 1000 >= close * 999)
            /\ level * 10000 = close * 10015 => dir = "Bearish"
            /\ level * 10000 = close * 9985 => dir = "Bullish"
            /\ level = close => dir = None

\* a level at close * 1.0015 tapped while the first and the live candle close elsewhere
C12_Witness ==
    /\ Len(price_df) = 3
    /\ price_df[1].close # price_df[2].close
    /\ price_df[3].close # price_df[2].close
    /\ \E l \in DOMAIN triggered_levels :
          levels_db[l].price * 10000 = price_df[2].close * 10015

\* completed trigger candles containing the scenario level, and the first of them
ScenarioTapPositions == {k \in Completed(price_df) : Contains(price_df[k], ScenarioLevel)}

ScenarioFirstTap ==
    CHOOSE k \in ScenarioTapPositions : \A j \in ScenarioTapPositions : k <= j

\* an evaluation that finds level 1 (at 101) tapped by the candle low = 99,
\* high = 102 while the current close is 95
ScenarioTap ==
    /\ IsEvaluateStep /\ Eligible(1)
    /\ Len(fvg_df) > 0 /\ Len(price_df) >= 2
    /\ price_df[Len(price_df) - 1].close = 95
    /\ ScenarioTapPositions # {}
    /\ price_df[ScenarioFirstTap].low = 99 /\ price_df[ScenarioFirstTap].high = 102

\* C13 as stated: the level at 101 with current close 95 expects Bullish, the
\* candle low = 99, high = 102 taps it, and a confirming Bullish gap after the
\* tap fires exactly one Signal with expectedDirection = Bullish.
C13_StatedStep ==
    ScenarioTap =>
        /\ 1 \in DOMAIN triggered_levels' => triggered_levels'[1].expected_fvg_type = "Bullish"
        /\ \A i \in SignalsFor(signals', 1) : signals'[i].expected_type = "Bullish"
        /\ GapPositions(fvg_df, price_df[ScenarioFirstTap].timestamp, "Bullish") # {}
              => Cardinality(SignalsFor(signals', 1)) = 1

C13_BearishOnly(sigs) ==
    \A i \in SignalsFor(sigs, 1) :
        sigs[i].expected_type = "Bearish" /\ sigs[i].fvg_type = "Bearish"

C13_AmendedStep ==
    /\ ScenarioTap =>
          LET ts == price_df[ScenarioFirstTap].timestamp
          IN  /\ 1 \in DOMAIN triggered_levels'
                    => /\ triggered_levels'[1].expected_fvg_type = "Bearish"
                       /\ triggered_levels'[1].tap_timestamp = ts
              /\ C13_BearishOnly(signals')
              /\ \A i \in SignalsFor(signals', 1) : signals'[i].tap_timestamp = ts
              /\ SignalsFor(signals', 1) # {} <=> GapPositions(fvg_df, ts, "Bearish") # {}
              /\ SignalsFor(signals', 1) = {} => 1 \in DOMAIN triggered_levels'
    /\ (/\ IsEvaluateStep /\ 1 \in DOMAIN triggered_levels /\ ~levels_db[1].triggered
        /\ triggered_levels[1].expected_fvg_type = "Bearish") =>
          /\ C13_BearishOnly(signals')
          /\ SignalsFor(signals', 1) # {}
                <=> GapPositions(fvg_df, triggered_levels[1].tap_timestamp, "Bearish") # {}

AlertChecked == alert.result # Nil
AlertResult == Val(alert.result)
RuleKind == get(alert.alert_config, "type", "value")
RuleCondition == get(alert.alert_config, "condition", "above")
RuleThreshold == get(alert.alert_config, "value", 0)
Output == Val(alert.indicator_data)
OutputPresent == alert.indicator_data # Nil /\ ~is_empty(Output)

\* the rule names no series, or one the output has
LineNamed ==
    \/ alert.alert_config.line = Nil
    \/ Output.kind = "Series"
    \/ Val(alert.alert_config.line) \in {"upper", "lower"}

\* the samples the rule reads: the Series, or the rule's line (first column unless named)
MainSamples ==
    IF Output.kind = "Series" THEN Output.cols.series
    ELSE IF alert.alert_config.line = Nil THEN Output.cols.upper
    ELSE Output.cols[Val(alert.alert_config.line)]

Current == MainSamples[Len(MainSamples)]
Previous == MainSamples[Len(MainSamples) - 1]

\* C14: a Crossover rule with at least two samples fires CrossesAbove iff
\* previous <= threshold < current and CrossesBelow iff previous >= threshold >
\* current; with a single sample it never fires.
C14_CrossoverRule ==
    (AlertChecked /\ OutputPresent /\ LineNamed /\ RuleKind = "crossover") =>
        /\ ~AlertResult.raised
        /\ (Len(MainSamples) >= 2 /\ RuleCondition = "crosses_above") =>
              (AlertResult.triggered <=> (Previous <= RuleThreshold /\ RuleThreshold < Current))
        /\ (Len(MainSamples) >= 2 /\ RuleCondition = "crosses_below") =>
              (AlertResult.triggered <=> (Previous >= RuleThreshold /\ RuleThreshold > Current))
        /\ Len(MainSamples) = 1 => ~AlertResult.triggered

\* previous = threshold with current above it has fired CrossesAbove
C14_Witness ==
    /\ AlertChecked /\ OutputPresent /\ LineNamed
    /\ RuleKind = "crossover" /\ RuleCondition = "crosses_above"
    /\ Len(MainSamples) >= 2
    /\ Previous = RuleThreshold /\ Current > RuleThreshold
    /\ AlertResult.triggered

\* the rule's compare series, when the output has it
CompareNamed ==
    /\ Output.kind = "DataFrame"
    /\ alert.alert_config.compare_with # Nil
    /\ Val(alert.alert_config.compare_with) \in {"upper", "lower"}

CompareSamples == Output.cols[Val(alert.alert_config.compare_with)]
CompareCurrent == CompareSamples[Len(CompareSamples)]
ComparePrevious == CompareSamples[Len(CompareSamples) - 1]

\* C15: a Compare rule on a multi-series output fires CrossesAbove iff previous
\* main <= previous compare and current main > current compare, CrossesBelow iff
\* previous main >= previous compare and current main < current compare; it
\* never fires with fewer than 2 samples, on a single series, or when the compare
\* series name is absent.
C15_CompareRule ==
    (AlertChecked /\ OutputPresent /\ LineNamed /\ RuleKind = "compare") =>
        /\ ~AlertResult.raised
        /\ (CompareNamed /\ Len(MainSamples) >= 2 /\ RuleCondition = "crosses_above") =>
              (AlertResult.triggered
                  <=> (Previous <= ComparePrevious /\ Current > CompareCurrent))
        /\ (CompareNamed /\ Len(MainSamples) >= 2 /\ RuleCondition = "crosses_below") =>
              (AlertResult.triggered
                  <=> (Previous >= ComparePrevious /\ Current < CompareCurrent))
        /\ (~CompareNamed \/ Len(MainSamples) < 2) => ~AlertResult.triggered

\* line = lower against compare = upper has fired on lower crossing above upper
C15_Witness ==
    /\ AlertChecked /\ OutputPresent /\ Output.kind = "DataFrame"
    /\ RuleKind = "compare" /\ RuleCondition = "crosses_above"
    /\ alert.alert_config.line = Some("lower")
    /\ alert.alert_config.compare_with = Some("upper")
    /\ Len(Output.cols.lower) >= 2
    /\ Output.cols.lower[Len(Output.cols.lower) - 1] < Output.cols.upper[Len(Output.cols.upper) - 1]
    /\ Output.cols.lower[Len(Output.cols.lower)] > Output.cols.upper[Len(Output.cols.upper)]
    /\ AlertResult.triggered

\* C16: a Value rule fires iff the last sample satisfies the condition against
\* the threshold (Above: current > threshold, Below: current < threshold, Equals:
\* |current - threshold| < 0.01), whatever the earlier samples are, and the
\* details carry current and threshold.
C16_Satisfies(current) ==
    \/ RuleCondition = "above" /\ current > RuleThreshold
    \/ RuleCondition = "below" /\ current < RuleThreshold
    \/ RuleCondition = "equals" /\ current - RuleThreshold < Hundredth
                                /\ RuleThreshold - current < Hundredth

C16_ValueRule ==
    (/\ AlertChecked /\ OutputPresent /\ LineNamed /\ RuleKind = "value"
     /\ RuleCondition \in {"above", "below", "equals"}) =>
        /\ ~AlertResult.raised
        /\ AlertResult.triggered <=> C16_Satisfies(Current)
        /\ AlertResult.details = Some([current |-> Current, threshold |-> RuleThreshold])

\* Equals has fired on a last sample 0.005 off the threshold, the sample before
\* it being 0.01 off
C16_Witness ==
    /\ AlertChecked /\ OutputPresent /\ LineNamed
    /\ RuleKind = "value" /\ RuleCondition = "equals"
    /\ Len(MainSamples) >= 2
    /\ Current = RuleThreshold - 5 /\ Previous = RuleThreshold - Hundredth
    /\ AlertResult.triggered

\* kind and condition that no branch evaluates
C17_Unmatched ==
    \/ RuleKind = "value" /\ RuleCondition \notin {"above", "below", "equals"}
    \/ RuleKind \in {"crossover", "compare"}
          /\ RuleCondition \notin {"crosses_above", "crosses_below"}
    \/ RuleKind \notin {"value", "crossover", "compare"}

SandboxDone == sandbox.phase = "done"
Outcome == Val(sandbox.outcome)

\* the code fails: it does not compile, does not define calculate, or raises at
\* definition or at call time
CodeFails(code) ==
    \/ code.syntax = "error"
    \/ code.top_level \in {"raises", "raises_base"}
    \/ ~code.defines_calculate
    \/ code.calculate \in {"raises", "raises_base"}

IsExecutionError(o) ==
    /\ o.kind = "raise" /\ o.class = "Exception"
    /\ Len(o.value) = 2 /\ o.value[1] = "Indicator execution error: "

\* C18: a run whose code has a syntax error, does not define calculate, or raises
\* at definition or call time ends in one ExecutionError carrying the cause text;
\* no other error kind escapes execute_indicator; a successful run returns the
\* value of calculate(buffer, **params).
C18_ErrorsWrapped ==
    SandboxDone =>
        /\ CodeFails(sandbox.code) => IsExecutionError(Outcome)
        /\ Outcome.kind = "raise" => IsExecutionError(Outcome)
        /\ ~CodeFails(sandbox.code) =>
              Outcome = Return([calculate |-> "df",
                                kwargs |-> IF sandbox.params = Nil THEN {}
                                           ELSE Val(sandbox.params)])

\* code that raises nothing outside Exception
OnlyExceptions(code) == code.top_level # "raises_base" /\ code.calculate # "raises_base"

\* C19: every sandbox run eventually returns, with a result or with an
\* ExecutionError, even when the user's calculate never ends on its own.
C19_RunReturns ==
    OnlyExceptions(sandbox.code) =>
        <>(SandboxDone /\ (Outcome.kind = "return" \/ IsExecutionError(Outcome)))

\* the names code can use: the namespace's keys and the builtins it is given
ReachableNames == (sandbox.namespace \ {"__builtins__"}) \cup sandbox.builtins

C20_AllowedNames == {"df", "abs", "min", "max", "round", "len", "range"}

\* C20: the names user code can reach are the input buffer, the numeric
\* utilities and the builtins abs, min, max, round, len, range, and none of them
\* gives filesystem, network, process or reflection capability.
C20_NamespaceLimited ==
    /\ ReachableNames \subseteq C20_AllowedNames
    /\ \A name \in ReachableNames : Capabilities(name) = {}

\* C28: a Signal confirmed in a later call through the stored TapState has the
\* field values the call that detected the tap would have given it: triggerPrice
\* (the tapping candle's close), tapTimestamp and expectedDirection.
C28_Step ==
    IsEvaluateStep =>
        \A l \in DOMAIN triggered_levels :
            \A i \in SignalsFor(signals', l) :
                LET tap == triggered_levels[l]
                    tapping == price_df[tap.tap_index + 1]
                IN  /\ signals'[i].trigger_price = tapping.close
                    /\ signals'[i].tap_timestamp = tapping.timestamp
                    /\ signals'[i].expected_type
                          = IF tap.expected_fvg_type = None THEN "Any" ELSE tap.expected_fvg_type

C28_SameContent == [][C28_Step]_vars

\* what the same call would have done had the remote end answered as sv
C21_Under(sv) ==
    check_fvg_signals(price_df, fvg_df, get_price_levels(levels_db), levels_db, emitted,
                      triggered_levels, [Env(host) EXCEPT !.service = sv])

\* C21: for the same inputs a call returns the same Signals, marks the same
\* levels triggered and leaves the same TapState whether delivery succeeds, is
\* rejected or fails with a network error, and no delivery failure leaves the call.
C21_Step ==
    IsEvaluateStep =>
        /\ ~host'.raised
        /\ \A sv \in Services :
              /\ ~C21_Under(sv).raised
              /\ C21_Under(sv).signals = signals'
              /\ C21_Under(sv).db = levels_db'
              /\ C21_Under(sv).tl = triggered_levels'

C21_DeliveryIndependent == [][C21_Step]_vars

\* a call whose notification failed with a network error has returned the
\* Signal and marked the level
C21_Witness ==
    /\ Evaluated
    /\ \E n \in DOMAIN host.deliveries :
          ~host.deliveries[n].ok /\ host.deliveries[n].message = "Network error"
    /\ \E i \in DOMAIN signals : levels_db[signals[i].level_id].triggered

\* C26: a level whose enabled flag is false when a call is made produces no
\* Signal in that call, also when it holds a TapState from when it was enabled.
C26_Step ==
    IsEvaluateStep =>
        \A l \in Levels : ~levels_db[l].enabled => SignalsFor(signals', l) = {}

C26_DisabledSilent == [][C26_Step]_vars

\* C27: the tap and the confirming gap of every Signal come from the same
\* symbol: a TapState created in a call for one symbol is not confirmed by a
\* later call made for another symbol on the same engine.
C27_Step ==
    IsEvaluateStep =>
        \A l \in DOMAIN triggered_levels :
            \A i \in SignalsFor(signals', l) : signals'[i].symbol = host.tap_symbol[l]

C27_SameSymbol == [][C27_Step]_vars

\* C25: across the refresh ticks of the application, a TapState created in one
\* tick without a confirming gap is still held by the engine of the next tick:
\* a TapState leaves the engine only when its level emits a Signal.
C25_Step ==
    \A l \in DOMAIN triggered_levels :
        l \in DOMAIN triggered_levels' \/ SignalsFor(signals', l) # {}

C25_TapStateKept == [][C25_Step]_vars

\* a step in which check_fvg_after_tap, and detect_fvg through it, was called on
\* its own
DirectCall == detect_args' # detect_args \/ fvg_list' # fvg_list

HasLevel(l) == l \in DOMAIN levels_db

TappedNow(l) ==
    HasLevel(l) /\ \E k \in Completed(price_df) : Contains(price_df[k], levels_db[l].price)

C22_EvaluateFrame ==
    /\ price_df' = price_df /\ fvg_df' = fvg_df
    /\ DOMAIN levels_db' = DOMAIN levels_db
    /\ \A l \in DOMAIN levels_db :
          /\ levels_db'[l].price = levels_db[l].price
          /\ levels_db'[l].enabled = levels_db[l].enabled
    /\ \A l \in Levels :
          /\ (l \in DOMAIN triggered_levels /\ SignalsFor(signals', l) = {})
                => (l \in DOMAIN triggered_levels' /\ triggered_levels'[l] = triggered_levels[l])
          /\ (l \notin DOMAIN triggered_levels /\ ~TappedNow(l))
                => l \notin DOMAIN triggered_levels'

C22_Step ==
    /\ DirectCall =>
          UNCHANGED <<price_df, fvg_df, levels_db, price_levels, triggered_levels, signals, emitted>>
    /\ (price_levels' # <<>> /\ ~DirectCall) => C22_EvaluateFrame

\* C22: a call of check_fvg_signals changes nothing but TapState and the
\* triggered flags: both candle series, the price and enabled fields of every
\* level, and the TapState of every level that neither tapped nor confirmed in
\* the call are as before; detect_fvg and check_fvg_after_tap called on their
\* own change no engine state.
C22_Frame == [][C22_Step]_vars

\* a call has emitted: a level is marked triggered and is still enabled, the
\* TapState of a level is gone, and a direct call has been made as well
C22_Witness ==
    /\ Evaluated
    /\ signals # <<>>
    /\ \E l \in DOMAIN levels_db : levels_db[l].triggered /\ levels_db[l].enabled
    /\ detect_args.called

PostTap(ts) == {k \in DOMAIN fvg_df : fvg_df[k].timestamp > ts}

C23_Insufficient ==
    Len(price_df) < 2 \/ Len(fvg_df) = 0 \/ DOMAIN levels_db = {}

\* what a call of check_fvg_signals made in this state returns and leaves
C23_Call ==
    check_fvg_signals(price_df, fvg_df, get_price_levels(levels_db), levels_db,
                      emitted, triggered_levels, Env(host))

C23_EvaluateEmpty ==
    C23_Insufficient =>
        /\ ~C23_Call.raised
        /\ C23_Call.signals = <<>>
        /\ C23_Call.tl = triggered_levels
        /\ C23_Call.db = levels_db

\* detect_fvg on the confirmation series of this state, for every filter and start
C23_DetectEmpty ==
    Len(fvg_df) < 4 =>
        \A f \in Filters, st \in DetectStarts : detect_fvg(fvg_df, f, st) = <<>>

C23_Step ==
    /\ (DirectCall /\ Cardinality(PostTap(detect_args'.tap_timestamp)) < 4)
          => fvg_list' = <<>>
    /\ (price_levels' # <<>> /\ ~DirectCall /\ C23_Insufficient)
          => (signals' = <<>> /\ triggered_levels' = triggered_levels)

\* C23: too little data gives an empty result: detect_fvg returns no gap for a
\* series of fewer than 4 candles, check_fvg_after_tap returns nothing when
\* fewer than 4 candles lie strictly after the tap, and check_fvg_signals on an
\* empty series, an empty level list or a trigger series of fewer than 2
\* candles returns no Signal and stores no TapState.
C23_InsufficientData ==
    [](C23_DetectEmpty /\ C23_EvaluateEmpty) /\ [][C23_Step]_vars

\* a call made with a single trigger candle that contains the level price and
\* a confirmation series long enough to hold a gap
C23_Witness ==
    /\ Evaluated
    /\ Len(price_df) = 1
    /\ \E l \in DOMAIN levels_db : Contains(price_df[1], levels_db[l].price)
    /\ Len(fvg_df) >= 4
    /\ signals = <<>> /\ triggered_levels = <<>>

PassOver == alert_pass.ended # "idle"

\* C24: in the alert pass, the failure of one indicator is surfaced for that
\* alert only: the pass returns, and every enabled alert has been run and
\* evaluated, in order.
C24_PassCompletes ==
    PassOver =>
        /\ alert_pass.ended = "returned"
        /\ Len(alert_pass.log) = Len(get_indicator_alerts(alert_pass.rows))

MainCrosses(d, condition) ==
    LET main == d.cols[d.columns[1]]
        sg == d.cols.signal
    IN  IF condition = "crosses_above"
        THEN main[1] <= sg[1] /\ main[2] > sg[2]
        ELSE main[1] >= sg[1] /\ main[2] < sg[2]

\* C29: a Compare alert saved through the alert manager is evaluated against its
\* compare line: when the main line of the indicator crosses the signal line in
\* the stated direction, the pass reports the alert as fired.
C29_CompareFires ==
    alert_pass.ended = "returned" =>
        \A n \in DOMAIN alert_pass.log :
            LET row == get_indicator_alerts(alert_pass.rows)[n]
                ind == Indicators[row.indicator_id]
            IN  (/\ row.alert_type = "compare"
                 /\ ind.output # Nil
                 /\ Val(ind.output).kind = "DataFrame"
                 /\ "signal" \in ColumnSet(Val(ind.output))
                 /\ MainCrosses(Val(ind.output), row.condition))
                    => /\ alert_pass.log[n].result = "checked"
                       /\ alert_pass.log[n].triggered

\* C30: a sandbox run leaves the caller's candle buffer unchanged: whatever the
\* user code does to the buffer it receives in calculate, the buffer passed to
\* execute_indicator holds the same candles after the run as before.
C30_Step == sandbox'.df = sandbox.df

C30_BufferUnchanged == [][C30_Step]_vars

====
